---- MODULE Spec2Model ----
(***************************************************************************)
(* Model of pgshift/create_icon.py: the per-pixel shading routine and the  *)
(* minimal PNG encoder with its file write.                                *)
(*                                                                         *)
(* Numbers.  The script computes with IEEE doubles.  Every coordinate is   *)
(* a multiple of 1/256 and every decimal constant of the script is a       *)
(* multiple of 1/100, so every quantity the script compares is a multiple  *)
(* of 1/25600.  The model keeps lengths as integers in that unit (25600    *)
(* per 1.0) and turns each comparison and each int() into the equivalent   *)
(* integer comparison or truncating division, cross-multiplied so that no  *)
(* intermediate value leaves 32 bits.  dist is a square root; comparisons  *)
(* with it are made on squares.                                            *)
(*                                                                         *)
(* Buffers.  The script reads no input, so what the list pixels holds      *)
(* after y passes of the row loop, and what raw holds after the join, is   *)
(* the same in every run.  The two are state functions of the loop         *)
(* position (pixels, raw below), built by concatenation in the script's    *)
(* order, and not variables: a state would otherwise carry a million       *)
(* bytes.  The variables are the script's position (pc), its loop          *)
(* variables, the encoded stream, the file and the standard output.        *)
(***************************************************************************)
EXTENDS Integers, Sequences, FiniteSets, TLC

VARIABLES pc, x, y, r, g, b, a, writes, png, file, out

vars == <<pc, x, y, r, g, b, a, writes, png, file, out>>

(***************************************************************************)
(* Arithmetic helpers                                                      *)
(***************************************************************************)
Abs(n) == IF n < 0 THEN -n ELSE n

\* int(n/d) for d > 0: Python's int() truncates toward zero.
Trunc(n, d) == IF n >= 0 THEN n \div d ELSE -((-n) \div d)

(***************************************************************************)
(* Constants of the script, in units of 1/25600                            *)
(***************************************************************************)
size == 512
Half == size \div 2            \* size/2

cy1 == -6400                   \* -0.25
cy2 == 6400                    \*  0.25
cyl_width == 12800             \*  0.5
cyl_height == 6400             \*  0.25
ellipse_h == 2048              \*  0.08

\* nx = (x - size/2) / (size/2), ny likewise, in model units.
nx(i) == 100 * (i - Half)
ny(j) == 100 * (j - Half)

\* nx*nx + ny*ny in units of 1/Half^2 (dist^2 = Dist2/Half^2).
Dist2(i, j) == (i - Half) * (i - Half) + (j - Half) * (j - Half)

\* Variant: the square root left out (dist = nx*nx + ny*ny), so that
\* dist^2 is compared with n/d.
DistLessNoRoot(i, j, n, d) == d * Dist2(i, j) < n * Half * Half

\* dist < n/d, compared on squares: d^2 * Dist2 < n^2 * Half^2.
DistLess(i, j, n, d) == d * d * Dist2(i, j) < n * n * Half * Half

(***************************************************************************)
(* Interior shading (dist < 0.85)                                          *)
(***************************************************************************)
\* gradient = y/size; int(c0 + gradient * c1)
Grad(j, c0, c1) == Trunc(c0 * size + j * c1, size)

Base(j) == <<Grad(j, 30, 40), Grad(j, 20, 30), Grad(j, 80, 80)>>

in_top_cyl(i, j) == Abs(nx(i)) < cyl_width /\ Abs(ny(j) - cy1) < cyl_height
in_bot_cyl(i, j) == Abs(nx(i)) < cyl_width /\ Abs(ny(j) - cy2) < cyl_height

SumSq(p, q) == p * p + q * q

\* (nx/cyl_width)^2 + (v/ellipse_h)^2 < 1, multiplied by
\* (cyl_width*ellipse_h)^2 and divided by 51200^2; 51200 divides each of
\* nx*ellipse_h, v*cyl_width and cyl_width*ellipse_h (nx and v are multiples
\* of 100, the two semi-axes multiples of 512).
Ellipse(i, v) ==
    SumSq((nx(i) * ellipse_h) \div 51200, (v * cyl_width) \div 51200)
        < SumSq((cyl_width * ellipse_h) \div 51200, 0)

top_e1(i, j) == Ellipse(i, ny(j) - cy1 + cyl_height)
bot_e1(i, j) == Ellipse(i, ny(j) - cy1 - cyl_height)
\* Variant: the cap centred on the bottom cylinder's lower edge by a sign slip
\* (ny - cy2 - cyl_height).
top_e2_LowerEdge(i, j) == Ellipse(i, ny(j) - cy2 - cyl_height)

top_e2(i, j) == Ellipse(i, ny(j) - cy2 + cyl_height)
bot_e2(i, j) == Ellipse(i, ny(j) - cy2 - cyl_height)

TopTest(i, j) == in_top_cyl(i, j) \/ top_e1(i, j) \/ bot_e1(i, j)
BotTest(i, j) == in_bot_cyl(i, j) \/ top_e2(i, j) \/ bot_e2(i, j)

\* Variant: shade = 1.0 + abs(nx) / cyl_width * 0.3
ShadedBrighter(i, c) ==
    Trunc(c * (10 * cyl_width + 3 * Abs(nx(i))), 10 * cyl_width)

\* shade = 1.0 - abs(nx) / cyl_width * 0.3 ; int(c * shade)
\*   = int(c * (10*cyl_width - 3*|nx|) / (10*cyl_width))
Shaded(i, c) == Trunc(c * (10 * cyl_width - 3 * Abs(nx(i))), 10 * cyl_width)

TopColour(i, j) ==
    IF top_e1(i, j) THEN <<60, 220, 130>>
    ELSE <<Shaded(i, 40), Shaded(i, 180), Shaded(i, 100)>>

BotColour(i, j) ==
    IF top_e2(i, j) THEN <<80, 170, 255>>
    ELSE <<Shaded(i, 60), Shaded(i, 140), Shaded(i, 220)>>

Red == <<255, 100, 100>>

\* Variant: the 0.05 gap taken inward of each facing edge instead of outward
\* (ny > cy1 + cyl_height - 0.05 and ny < cy2 - cyl_height + 0.05).
ConnectorTestGapInward(i, j) ==
    /\ Abs(nx(i)) < 2048
    /\ ny(j) > cy1 + cyl_height - 1280
    /\ ny(j) < cy2 - cyl_height + 1280

\* abs(nx) < 0.08 and ny > cy1 + cyl_height + 0.05
\*                 and ny < cy2 - cyl_height - 0.05
ConnectorTest(i, j) ==
    /\ Abs(nx(i)) < 2048
    /\ ny(j) > cy1 + cyl_height + 1280
    /\ ny(j) < cy2 - cyl_height - 1280

arrow_tip_y == cy2 - cyl_height - 2048

\* ny > arrow_tip_y - 0.08 and ny < arrow_tip_y + 0.05, and then
\* abs(nx) < arrow_w with arrow_w = 0.15*(1 - (ny - arrow_tip_y + 0.08)/0.13),
\* multiplied by 0.13 (3328): |nx| * 3328 < 3840 * (3328 - (ny - tip + 2048)).
ArrowTest(i, j) ==
    /\ ny(j) > arrow_tip_y - 2048
    /\ ny(j) < arrow_tip_y + 1280
    /\ Abs(nx(i)) * 3328 < 3840 * (3328 - (ny(j) - arrow_tip_y + 2048))

\* The interior branch, statement by statement.  A stage takes the colour so
\* far (s.rgb) and either keeps it or overwrites it; s.w lists the statements
\* that assigned r, g, b, in program order.
BaseStage(j) == [rgb |-> Base(j), w |-> <<"base">>]

TopStage(i, j, s) ==
    IF TopTest(i, j) THEN [rgb |-> TopColour(i, j), w |-> Append(s.w, "top")]
    ELSE s

BotStage(i, j, s) ==
    IF BotTest(i, j) THEN [rgb |-> BotColour(i, j), w |-> Append(s.w, "bottom")]
    ELSE s

ConnectorStage(i, j, s) ==
    IF ConnectorTest(i, j) THEN [rgb |-> Red, w |-> Append(s.w, "connector")]
    ELSE s

ArrowStage(i, j, s) ==
    IF ArrowTest(i, j) THEN [rgb |-> Red, w |-> Append(s.w, "arrow")]
    ELSE s

\* a = 255 throughout the branch
WithAlpha(s) == [rgba |-> s.rgb \o <<255>>, w |-> s.w]

\* Variant: the bottom-cylinder statement placed before the top-cylinder one.
InteriorBottomFirst(i, j) ==
    WithAlpha(ArrowStage(i, j,
              ConnectorStage(i, j,
              TopStage(i, j,
              BotStage(i, j, BaseStage(j))))))

Interior(i, j) ==
    WithAlpha(ArrowStage(i, j,
              ConnectorStage(i, j,
              BotStage(i, j,
              TopStage(i, j, BaseStage(j))))))

(***************************************************************************)
(* Rim fade (0.85 <= dist < 0.9)                                           *)
(***************************************************************************)
\* 25*c^2*d2 / 4096, rounded up and rounded down.  With 25*c^2 split as
\* 4096*hi + lo the two partial products stay below 2^31.
FadeUp(c, d2) ==
    ((25 * c * c) \div 4096) * d2 + (((25 * c * c) % 4096) * d2 + 4095) \div 4096

FadeDown(c, d2) ==
    ((25 * c * c) \div 4096) * d2 + (((25 * c * c) % 4096) * d2) \div 4096

\* k <= c * af, af = (0.9 - dist)/0.05 = 18 - 20*dist, dist = sqrt(d2)/256:
\*   k <= 18c - 20c*sqrt(d2)/256  <=>  5c*sqrt(d2) <= 64*(18c - k)
\*   <=>  18c - k >= 0  /\  25*c^2*d2 <= 4096*(18c - k)^2
RimLeq(c, d2, k) ==
    /\ 18 * c - k >= 0
    /\ FadeUp(c, d2) <= (18 * c - k) * (18 * c - k)

\* Largest s in lo..hi with s*s <= n (lo*lo <= n).
RECURSIVE SqrtSearch(_, _, _)
SqrtSearch(n, lo, hi) ==
    IF lo = hi THEN lo
    ELSE IF ((lo + hi + 1) \div 2) * ((lo + hi + 1) \div 2) <= n
         THEN SqrtSearch(n, (lo + hi + 1) \div 2, hi)
         ELSE SqrtSearch(n, lo, (lo + hi + 1) \div 2 - 1)

FloorSqrt(n) == SqrtSearch(n, 0, 46340)

RoundUp(n, s) == IF s * s = n THEN s ELSE s + 1

CeilSqrt(n) == RoundUp(n, FloorSqrt(n))

\* Variant: round(c * af) in place of int(c * af), for af >= 0: the largest k
\* with k <= c*af + 1/2, that is with RimLeq(2c, d2, 2k - 1), that is with
\* 36c - 2k + 1 >= sqrt(FadeUp(2c, d2)).
RimChannelRounded(c, d2) == (36 * c + 1 - CeilSqrt(FadeUp(2 * c, d2))) \div 2

\* int(c * af): truncation toward zero of c*(0.9 - dist)/0.05.
\* For af >= 0 it is the largest k with RimLeq(c, d2, k), that is with
\* 18c - k >= sqrt(FadeUp(c, d2)); for af < 0 it is -m for the largest m with
\* -m >= c*af, that is with 64*(18c + m) <= 5c*sqrt(d2), that is with
\* 18c + m <= sqrt(FadeDown(c, d2)).
RimChannel(c, d2) ==
    IF RimLeq(c, d2, 0)
    THEN 18 * c - CeilSqrt(FadeUp(c, d2))
    ELSE -(FloorSqrt(FadeDown(c, d2)) - 18 * c)

Rim(i, j) ==
    LET d2 == Dist2(i, j)
    IN  <<RimChannel(100, d2), RimChannel(80, d2),
          RimChannel(180, d2), RimChannel(255, d2)>>

(***************************************************************************)
(* One pixel: the body of the inner loop                                   *)
(***************************************************************************)
Pixel(i, j) ==
    IF DistLess(i, j, 17, 20) THEN Interior(i, j).rgba
    ELSE IF DistLess(i, j, 9, 10) THEN Rim(i, j)
    ELSE <<0, 0, 0, 0>>

(***************************************************************************)
(* The pixel function on its own: one pixel (x, y) of the canvas is drawn  *)
(* and the loop body is applied to it.  writes records which statements of *)
(* the interior branch assigned r, g, b (a history variable).              *)
(***************************************************************************)
Unset == -1     \* r, g, b, a before the first pass through the loop body

Init ==
    /\ pc = "pixel"
    /\ x \in 0..(size - 1)
    /\ y \in 0..(size - 1)
    /\ r = Unset /\ g = Unset /\ b = Unset /\ a = Unset
    /\ writes = <<>>
    /\ png = <<>> /\ file = <<>> /\ out = <<>>

Assign(p) == r' = p[1] /\ g' = p[2] /\ b' = p[3] /\ a' = p[4]

AssignInterior(s) == Assign(s.rgba) /\ writes' = s.w

\* if dist < 0.85: ...
InteriorPixel ==
    /\ pc = "pixel"
    /\ DistLess(x, y, 17, 20)
    /\ AssignInterior(Interior(x, y))
    /\ pc' = "shaded"
    /\ UNCHANGED <<x, y, png, file, out>>

\* else: if dist < 0.9: ...
RimPixel ==
    /\ pc = "pixel"
    /\ ~DistLess(x, y, 17, 20)
    /\ DistLess(x, y, 9, 10)
    /\ Assign(Rim(x, y))
    /\ pc' = "shaded"
    /\ UNCHANGED <<x, y, writes, png, file, out>>

\* else: r, g, b, a = 0, 0, 0, 0
OuterPixel ==
    /\ pc = "pixel"
    /\ ~DistLess(x, y, 17, 20)
    /\ ~DistLess(x, y, 9, 10)
    /\ Assign(<<0, 0, 0, 0>>)
    /\ pc' = "shaded"
    /\ UNCHANGED <<x, y, writes, png, file, out>>

Next == InteriorPixel \/ RimPixel \/ OuterPixel

Spec == Init /\ [][Next]_vars

(***************************************************************************)
(* The encoder: scanlines, chunks, CRC-32                                  *)
(***************************************************************************)
\* px[lo] + ... + px[hi]: the pixels' [r, g, b, a] lists end to end.
RECURSIVE Extend(_, _, _)
Extend(px, lo, hi) ==
    IF lo = hi THEN px[lo]
    ELSE Extend(px, lo, (lo + hi) \div 2) \o Extend(px, (lo + hi) \div 2 + 1, hi)

\* row.extend([r, g, b, a]) for x = lo..hi in ascending order.
RowOf(j, lo, hi) == Extend([i \in lo..hi |-> Pixel(i, j)], lo, hi)

\* Variant: the filter byte appended after the row (row + [0]).
ScanlineFilterLast(rw) == rw \o <<0>>

\* [0] + row
Scanline(rw) == <<0>> \o rw

\* bytes(...) raises ValueError unless every element is in range(256).
IsBytes(s) == \A k \in 1..Len(s) : s[k] \in 0..255

\* b''.join(pixels[lo..hi])
RECURSIVE Join(_, _, _)
Join(rows, lo, hi) ==
    IF lo > hi THEN <<>>
    ELSE IF lo = hi THEN rows[lo]
    ELSE LET mid == (lo + hi) \div 2
         IN  Join(rows, lo, mid) \o Join(rows, mid + 1, hi)

\* The list pixels after the outer loop: bytes([0] + row) for y = lo..hi in
\* ascending order.
RECURSIVE Rows(_, _)
Rows(lo, hi) ==
    IF lo = hi THEN <<Scanline(RowOf(lo, 0, size - 1))>>
    ELSE LET mid == (lo + hi) \div 2
         IN  Rows(lo, mid) \o Rows(mid + 1, hi)

\* The script's list pixels in the current state of the row loop: y rows
\* have been appended.
pixels == IF y = 0 THEN <<>> ELSE Rows(0, y - 1)

JoinAll(rows) == Join(rows, 1, Len(rows))

\* raw = b''.join(pixels), once the row loop has ended
raw == JoinAll(pixels)

\* struct.pack('>I', n) for 0 <= n < 2^31
PackI(n) ==
    <<(n \div 16777216) % 256, (n \div 65536) % 256, (n \div 256) % 256, n % 256>>

\* zlib.crc32 (reflected CRC-32, polynomial 0xEDB88320).  The 32-bit
\* register is kept as <<high 16 bits, low 16 bits>>.
RECURSIVE XorBits(_, _, _)
XorBits(p, q, n) ==
    IF n = 0 THEN 0
    ELSE ((p + q) % 2) + 2 * XorBits(p \div 2, q \div 2, n - 1)

Xor16(p, q) == XorBits(p, q, 16)

PolyHi == 60856     \* 0xEDB8
PolyLo == 33568     \* 0x8320

\* crc = (crc >> 1) ^ poly if crc & 1 else crc >> 1
CrcShift(reg) ==
    LET hi == reg[1] \div 2
        lo == reg[2] \div 2 + 32768 * (reg[1] % 2)
    IN  IF reg[2] % 2 = 1 THEN <<Xor16(hi, PolyHi), Xor16(lo, PolyLo)>>
        ELSE <<hi, lo>>

RECURSIVE CrcShifts(_, _)
CrcShifts(reg, n) == IF n = 0 THEN reg ELSE CrcShifts(CrcShift(reg), n - 1)

U16 == 0..65535

\* crc ^= byte, then eight shifts.  (A function, so that the register is
\* a value before the next byte is taken up.)
CrcByte[reg \in U16 \X U16, byte \in 0..255] ==
    CrcShifts(<<reg[1], Xor16(reg[2], byte)>>, 8)

RECURSIVE CrcUpdate(_, _, _)
CrcUpdate(reg, data, k) ==
    IF k > Len(data) THEN reg ELSE CrcUpdate(CrcByte[reg, data[k]], data, k + 1)

\* crc32(data) & 0xffffffff, as a register
Crc32(data) ==
    LET fin == CrcUpdate(<<65535, 65535>>, data, 1)
    IN  <<65535 - fin[1], 65535 - fin[2]>>

\* struct.pack('>I', v) of a register
PackReg(reg) ==
    <<reg[1] \div 256, reg[1] % 256, reg[2] \div 256, reg[2] % 256>>

\* Variant: the CRC taken over the payload alone (zlib.crc32(d)).
chunkCrcOfPayload(t, d) ==
    PackI(Len(d)) \o t \o d \o PackReg(Crc32(d))

\* def chunk(t, d)
chunk(t, d) ==
    LET c == t \o d
    IN  PackI(Len(d)) \o c \o PackReg(Crc32(c))

Signature == <<137, 80, 78, 71, 13, 10, 26, 10>>     \* b'\x89PNG\r\n\x1a\n'
IHDR == <<73, 72, 68, 82>>
IDAT == <<73, 68, 65, 84>>
IEND == <<73, 69, 78, 68>>

\* Variant: little-endian dimensions (struct.pack('<IIBBBBB', ...)).
ihdrLittleEndian ==
    <<size % 256, (size \div 256) % 256, 0, 0,
      size % 256, (size \div 256) % 256, 0, 0, 8, 6, 0, 0, 0>>

\* struct.pack('>IIBBBBB', size, size, 8, 6, 0, 0, 0)
ihdr == PackI(size) \o PackI(size) \o <<8, 6, 0, 0, 0>>

\* png = signature + chunk(IHDR) + chunk(IDAT, z) + chunk(IEND, b''),
\* z being the result of zlib.compress(raw, 9)
Png(z) == Signature \o chunk(IHDR, ihdr) \o chunk(IDAT, z) \o chunk(IEND, <<>>)

(***************************************************************************)
(* The whole run: the row loop, the join, the encoding, the file write.    *)
(* The inner loop over x is one step per row.  The result of               *)
(* zlib.compress is a byte string of the library's choosing, drawn from    *)
(* Compressed; the outcome of open() and of write() is the environment's.  *)
(***************************************************************************)
MaxZLen == 2        \* longest compressed payload drawn
MaxPartial == 2     \* most bytes that reach the file before a failed write

ZBytes == {0, 255}
Compressed == UNION {[1..n -> ZBytes] : n \in 0..MaxZLen}

OldFile == <<1, 2, 3>>      \* content of icon.png before the run
Confirmation == "Created 512x512 pgshift icon"

RunInit ==
    /\ pc = "rows"
    /\ y = 0
    /\ x = Unset
    /\ r = Unset /\ g = Unset /\ b = Unset /\ a = Unset
    /\ writes = <<>>
    /\ png = <<>>
    /\ file = OldFile
    /\ out = <<>>

\* One pass of "for y in range(size)": row = [], the inner loop, and
\* pixels.append(bytes([0] + row)).  y is the next row to build.
Row ==
    /\ pc = "rows"
    /\ y < size
    /\ x' = size - 1
    /\ Assign(Pixel(size - 1, y))
    /\ IF IsBytes(Scanline(RowOf(y, 0, size - 1)))
       THEN y' = y + 1 /\ pc' = "rows"
       ELSE pc' = "value_error" /\ UNCHANGED y
    /\ UNCHANGED <<writes, png, file, out>>

\* raw = b''.join(pixels)
JoinRows ==
    /\ pc = "rows"
    /\ y = size
    /\ pc' = "encode"
    /\ UNCHANGED <<x, y, r, g, b, a, writes, png, file, out>>

\* ihdr = ...; png = ...
Encode ==
    /\ pc = "encode"
    /\ \E z \in Compressed : png' = Png(z)
    /\ pc' = "open"
    /\ UNCHANGED <<x, y, r, g, b, a, writes, file, out>>

\* open(..., 'wb') succeeds: the file is created or truncated.
OpenOk ==
    /\ pc = "open"
    /\ file' = <<>>
    /\ pc' = "write"
    /\ UNCHANGED <<x, y, r, g, b, a, writes, png, out>>

\* open(..., 'wb') raises OSError: nothing is caught, the process ends.
OpenFail ==
    /\ pc = "open"
    /\ pc' = "aborted"
    /\ UNCHANGED <<x, y, r, g, b, a, writes, png, file, out>>

\* f.write(png) and the close at the end of the with block succeed.
WriteOk ==
    /\ pc = "write"
    /\ file' = png
    /\ pc' = "print"
    /\ UNCHANGED <<x, y, r, g, b, a, writes, png, out>>

\* f.write(png) or the flush on close raises OSError after k bytes reached
\* the file: nothing is caught, the process ends.
WriteFail ==
    /\ pc = "write"
    /\ \E k \in 0..MaxPartial :
          /\ k < Len(png)
          /\ file' = SubSeq(png, 1, k)
    /\ pc' = "aborted"
    /\ UNCHANGED <<x, y, r, g, b, a, writes, png, out>>

\* print('Created 512x512 pgshift icon')
PrintDone ==
    /\ pc = "print"
    /\ out' = Append(out, Confirmation)
    /\ pc' = "done"
    /\ UNCHANGED <<x, y, r, g, b, a, writes, png, file>>

RunNext ==
    \/ Row
    \/ JoinRows
    \/ Encode
    \/ OpenOk
    \/ OpenFail
    \/ WriteOk
    \/ WriteFail
    \/ PrintDone

RunSpec == RunInit /\ [][RunNext]_vars

(***************************************************************************)
(* Properties of the pixel function (checked under Spec)                   *)
(***************************************************************************)
Shaded4 == <<r, g, b, a>>
IsShaded == pc = "shaded"
IsInterior == IsShaded /\ writes # <<>>

\* dist >= n/d, on squares
DistAtLeast(n, d) == d * d * Dist2(x, y) >= n * n * Half * Half

\* C1 as stated: the pixel at the canvas centre (256, 256) takes the interior
\* branch, is inside no cylinder, no cap, not the connector and not the
\* arrowhead, and comes out as the base gradient colour (50, 35, 120, 255).
C1_CentreIsBaseGradient ==
    (IsShaded /\ x = 256 /\ y = 256) =>
        /\ ~DistAtLeast(17, 20)
        /\ writes = <<"base">>
        /\ Shaded4 = <<50, 35, 120, 255>>

\* C1 amended: the pixel at the canvas centre takes the interior branch and
\* is outside both cylinder rectangles, outside the top cylinder's upper cap
\* and the bottom cylinder's lower cap, outside the connector and the
\* arrowhead; but it is inside the ellipse centred on ny = 0, which is both
\* the top cylinder's lower cap and the bottom cylinder's upper cap, so the
\* base gradient colour (50, 35, 120) is overwritten twice and the pixel comes
\* out as the bottom cylinder's cap colour (80, 170, 255, 255).
C1_CentreIsBottomCap ==
    (IsShaded /\ x = 256 /\ y = 256) =>
        /\ ~DistAtLeast(17, 20)
        /\ Base(y) = <<50, 35, 120>>
        /\ ~in_top_cyl(x, y) /\ ~in_bot_cyl(x, y)
        /\ ~top_e1(x, y) /\ ~bot_e2(x, y)
        /\ bot_e1(x, y) /\ top_e2(x, y)
        /\ ~ConnectorTest(x, y) /\ ~ArrowTest(x, y)
        /\ writes = <<"base", "top", "bottom">>
        /\ Shaded4 = <<80, 170, 255, 255>>

C1_Witness == IsShaded /\ x = 256 /\ y = 256 /\ a = 255

\* C2: every pixel with dist >= 0.9 comes out as (0, 0, 0, 0), and no
\* statement of the interior or rim branch assigned to it.
C2_OuterTransparent ==
    (IsShaded /\ DistAtLeast(9, 10)) =>
        Shaded4 = <<0, 0, 0, 0>> /\ writes = <<>>

\* just outside the mask radius: dist = 231/256
C2_Witness == IsShaded /\ x = 487 /\ y = 256 /\ Shaded4 = <<0, 0, 0, 0>>

\* k = trunc(c * af) for af = (0.9 - dist)/0.05 >= 0:  k <= c*af < k + 1
IsTruncOfFade(c, k) ==
    /\ k >= 0
    /\ RimLeq(c, Dist2(x, y), k)
    /\ ~RimLeq(c, Dist2(x, y), k + 1)

\* C3: every pixel with 0.85 <= dist < 0.9 comes out as (trunc(100 af),
\* trunc(80 af), trunc(180 af), trunc(255 af)), af = (0.9 - dist)/0.05; alpha
\* does not increase when dist increases across the rim (alpha is a function
\* of dist^2 alone, and each step of dist^2 inside the band does not raise
\* it); the pixel (480, 256), at dist = 0.875, has alpha 127.
C3_RimFade ==
    (IsShaded /\ DistAtLeast(17, 20) /\ ~DistAtLeast(9, 10)) =>
        /\ IsTruncOfFade(100, r)
        /\ IsTruncOfFade(80, g)
        /\ IsTruncOfFade(180, b)
        /\ IsTruncOfFade(255, a)
        /\ writes = <<>>
        /\ (100 * (Dist2(x, y) + 1) < 81 * Half * Half
              => RimChannel(255, Dist2(x, y) + 1) <= a)
        /\ (x = 480 /\ y = 256 => a = 127)

C3_Witness == IsShaded /\ x = 480 /\ y = 256 /\ Shaded4 = <<50, 40, 90, 127>>

\* The colour of the last matching test, in the order base gradient, top
\* cylinder, bottom cylinder, connector bar, arrowhead.
LastMatch(i, j) ==
    IF ArrowTest(i, j) THEN Red
    ELSE IF ConnectorTest(i, j) THEN Red
    ELSE IF BotTest(i, j) THEN BotColour(i, j)
    ELSE IF TopTest(i, j) THEN TopColour(i, j)
    ELSE Base(j)

\* C4 as stated: for every interior pixel the final colour is that of the
\* last matching test, alpha is 255, a pixel matching both cylinder tests ends
\* with the bottom cylinder's blue, and a pixel in the arrowhead ends red.
C4_LastWinsBothEndBlue ==
    IsInterior =>
        /\ Shaded4 = LastMatch(x, y) \o <<255>>
        /\ (TopTest(x, y) /\ BotTest(x, y) => <<r, g, b>> = BotColour(x, y))
        /\ (ArrowTest(x, y) => Shaded4 = <<255, 100, 100, 255>>)

\* C4 amended: for every interior pixel the final colour is that of the last
\* matching test in the order base gradient, top cylinder (with its upper
\* cap), bottom cylinder (with its upper cap), connector bar, arrowhead, with
\* no blending and alpha 255; a pixel matching both cylinder tests and not
\* inside the arrowhead ends with the bottom cylinder's blue, and a pixel
\* inside the arrowhead ends as (255, 100, 100, 255) whatever cylinder it is
\* also in.
C4_LastWriteWins ==
    IsInterior =>
        /\ Shaded4 = LastMatch(x, y) \o <<255>>
        /\ (TopTest(x, y) /\ BotTest(x, y) /\ ~ArrowTest(x, y)
              => <<r, g, b>> = BotColour(x, y))
        /\ (ArrowTest(x, y) => Shaded4 = <<255, 100, 100, 255>>)

\* a pixel of both cylinders and of the arrowhead
C4_Witness ==
    /\ IsShaded
    /\ writes = <<"base", "top", "bottom", "arrow">>
    /\ Shaded4 = <<255, 100, 100, 255>>

\* C9: for every pixel and on every branch each of r, g, b, a is an integer
\* in 0..255, so bytes() accepts the four values; the divisors of the
\* per-pixel arithmetic (size/2, cyl_width, ellipse_h) are not zero.
C9_ChannelsAreBytes ==
    IsShaded =>
        /\ r \in 0..255 /\ g \in 0..255 /\ b \in 0..255 /\ a \in 0..255
        /\ IsBytes(Shaded4)
        /\ Half # 0 /\ cyl_width # 0 /\ ellipse_h # 0

\* a shaded (not capped) pixel of the bottom cylinder, on its axis
C9_Witness ==
    /\ IsShaded
    /\ x = 256 /\ y = 320
    /\ writes = <<"base", "bottom">>
    /\ Shaded4 = <<60, 140, 220, 255>>

\* C10: the connector test matches no pixel of the canvas and its branch
\* never assigns; every pixel that comes out as (255, 100, 100, 255) was last
\* assigned by the arrowhead test, so -0.16 < ny < -0.03 and
\* |nx| < 0.15 * (1 - (ny + 0.16)/0.13).
C10_RedOnlyFromArrow ==
    IsShaded =>
        /\ ~ConnectorTest(x, y)
        /\ \A k \in 1..Len(writes) : writes[k] # "connector"
        /\ (Shaded4 = <<255, 100, 100, 255>> =>
              /\ writes # <<>>
              /\ writes[Len(writes)] = "arrow"
              /\ ny(y) > -4096 /\ ny(y) < -768
              /\ Abs(nx(x)) * 3328 < 3840 * (3328 - (ny(y) + 4096)))

\* a pixel of the top cylinder and of the arrowhead, outside the bottom one
C10_Witness ==
    /\ IsShaded
    /\ x = 256 /\ y = 230
    /\ writes = <<"base", "top", "arrow">>
    /\ Shaded4 = <<255, 100, 100, 255>>

(***************************************************************************)
(* Properties of the run (checked under RunSpec)                           *)
(***************************************************************************)
\* A decoder's view of a byte stream: the chunks found from position pos on,
\* each delimited by its own length field; BadChunk ends the list when the
\* stream stops in the middle of a chunk.
BadChunk == [length |-> -1, type |-> <<>>, data |-> <<>>, crc |-> <<>>]

BigEndian(s, k) ==
    ((s[k] * 256 + s[k + 1]) * 256 + s[k + 2]) * 256 + s[k + 3]

RECURSIVE Chunks(_, _)
Chunks(s, pos) ==
    IF pos > Len(s) THEN <<>>
    ELSE IF pos + 11 > Len(s) \/ s[pos] > 127 THEN <<BadChunk>>
    ELSE IF pos + 11 + BigEndian(s, pos) > Len(s) THEN <<BadChunk>>
    ELSE <<[length |-> BigEndian(s, pos),
            type |-> SubSeq(s, pos + 4, pos + 7),
            data |-> SubSeq(s, pos + 8, pos + 7 + BigEndian(s, pos)),
            crc |-> SubSeq(s, pos + 8 + BigEndian(s, pos),
                           pos + 11 + BigEndian(s, pos))]>>
         \o Chunks(s, pos + 12 + BigEndian(s, pos))

Encoded == pc \in {"open", "write", "print", "aborted", "done"}

ThreeChunks(cs) ==
    /\ Len(cs) = 3
    /\ cs[3].length >= 0
    /\ cs[1].type = <<73, 72, 68, 82>>
    /\ cs[2].type = <<73, 68, 65, 84>>
    /\ cs[3].type = <<73, 69, 78, 68>>
    /\ Len(cs[1].data) = 13
    /\ cs[1].data = <<0, 0, 2, 0, 0, 0, 2, 0, 8, 6, 0, 0, 0>>
    /\ cs[3].data = <<>>

\* C5: the stream handed to f.write, and the file once written, is the
\* 8-byte signature followed by exactly the chunks IHDR, IDAT, IEND and
\* nothing else; the IHDR payload is the 13 bytes 512, 512 (big-endian),
\* 8, 6, 0, 0, 0; the IEND payload is empty.
C5_StreamLayout ==
    /\ Encoded =>
          /\ SubSeq(png, 1, 8) = <<137, 80, 78, 71, 13, 10, 26, 10>>
          /\ ThreeChunks(Chunks(png, 9))
    /\ pc \in {"print", "done"} => file = png

C5_Witness == pc = "done" /\ file = png /\ Len(file) = 59

FramedChunk(c) ==
    /\ c.length >= 0
    /\ c.length = Len(c.data)
    /\ c.crc = PackReg(Crc32(c.type \o c.data))

FramedChunks(cs) ==
    /\ Len(cs) = 3
    /\ \A k \in 1..Len(cs) : FramedChunk(cs[k])
    /\ cs[3].crc = <<174, 66, 96, 130>>

\* C6: each chunk of the output is the 4-byte big-endian length of its
\* payload alone, its tag, its payload, and the 4-byte big-endian CRC-32 of
\* tag + payload: the IHDR length field is 13, the IDAT length field is the
\* length of the compressed payload, the IEND length field is 0 and the
\* IEND CRC is the standard AE 42 60 82.
C6_ChunkFraming ==
    Encoded =>
        /\ SubSeq(png, 9, 12) = <<0, 0, 0, 13>>
        /\ BigEndian(png, 34) = Len(png) - 57
        /\ SubSeq(png, Len(png) - 11, Len(png) - 8) = <<0, 0, 0, 0>>
        /\ FramedChunks(Chunks(png, 9))

C6_Witness == pc = "open" /\ Len(png) = 58 /\ png[42] = 255

Stride == 1 + 4 * size

\* The layout of a raw buffer: length, filter bytes, pixel bytes.
RawLayout(buf) ==
    /\ Len(buf) = 512 * 2049
    /\ \A j \in 0..(size - 1) :
          /\ buf[j * Stride + 1] = 0
          /\ \A i \in 0..(size - 1) :
                SubSeq(buf, j * Stride + 2 + 4 * i, j * Stride + 5 + 4 * i)
                    = Pixel(i, j)

\* C7: the buffer handed to the compressor is 512 scanlines in ascending y,
\* each a filter byte 0 followed by the r, g, b, a of the row's pixels in
\* ascending x; its length is 512 * (1 + 4 * 512) and the byte at offset
\* y * 2049 + 1 + 4 * x + c is channel c of pixel (x, y).
C7_RawLayout == pc = "encode" => RawLayout(raw)

\* the bytes of the rim pixel (480, 256) and of the centre pixel
RawSample(buf) ==
    /\ Len(buf) = 512 * 2049
    /\ SubSeq(buf, 256 * 2049 + 2 + 4 * 480, 256 * 2049 + 5 + 4 * 480)
          = <<50, 40, 90, 127>>
    /\ SubSeq(buf, 256 * 2049 + 2 + 4 * 256, 256 * 2049 + 5 + 4 * 256)
          = <<80, 170, 255, 255>>

C7_Witness == pc = "encode" /\ RawSample(raw)

\* C8 as stated: whenever the process has ended, or is past the write, the
\* file is exactly as before the run or holds the complete stream; the
\* confirmation is printed only after the complete stream was written.
C8_AllOrNothing ==
    /\ pc \in {"aborted", "print", "done"} => (file = OldFile \/ file = png)
    /\ out # <<>> => file = png

====
